---- MODULE Spec2Model ----
(***************************************************************************)
(* Model of scrapling/core/ai.py: ScraplingMCPServer.fetch_content.        *)
(*                                                                         *)
(* One call of fetch_content is one behaviour.  The call's arguments are   *)
(* chosen in Init.  The coroutine is cut at its suspension points:         *)
(*   "start"     the call has been made, nothing has run yet               *)
(*   "entering"  suspended in the session's __aenter__ (async with)        *)
(*   "gather"    suspended in  responses = await gather(tasks...)          *)
(*   "released"  the with-block has been left, __aexit__ has run           *)
(*   "done"      the call returned a list of ResponseModel                 *)
(*   "failed"    an exception left the call                                *)
(* The children of gather() are tasks of the event loop; they settle one   *)
(* at a time, in any order, and gather's done-callback runs with each.     *)
(*                                                                         *)
(* Spec      one call, any URLs and level, retries up to the default       *)
(* SpecCfg   one call on short lists, any timeout and kind of proxy        *)
(* SpecCalls several calls interleaved, each with its own session object   *)
(***************************************************************************)
EXTENDS Integers, Sequences, FiniteSets, TLC

\* ---------------------------------------------------------------- bounds
MaxUrls == 2
MaxDoc == 2
\* Spec: the attempts a call may need at most, len(urls) * retries
MaxAttempts == 4
\* SpecCfg: the longest list of URLs and the largest timeout (seconds)
MaxCfgUrls == 1
MaxTimeout == 5
\* SpecCalls: the number of calls
MaxCalls == 2

\* ---------------------------------------------------------------- inputs
\* The URLs a caller may pass, and the final URL of a redirected response.
URLS == {"a", "b"}
RedirectURL == "r"
\* protection_level is a plain str at run time: "invalid" stands for every
\* value outside the Literal.
Levels == {"basic", "playwright", "stealth", "invalid"}
\* line 29: the Literal of the annotation
ProtectionLevel == {"basic", "playwright", "stealth"}
Statuses == {200, 404}
Docs == 1..MaxDoc
ErrCodes == {"Timeout"}

\* SpecCalls: the lengths of the lists of URLs a call is made with
CallSizes == {1, 2}

UrlLists == UNION {[1..n -> URLS] : n \in 0..MaxUrls}

\* Keyword-argument values: a number, a proxy URL string, a proxy mapping or
\* None, each tagged with its Python type.
None == [t |-> "None", v |-> 0]
Num(n) == [t |-> "num", v |-> n]
ProxyStr == [t |-> "str", v |-> 1]
ProxyDict == [t |-> "dict", v |-> 1]
NoKwargs == [k \in {} |-> None]

\* lines 58, 61, 63: the defaults of timeout, retries and proxy
DefaultTimeout == 30
DefaultRetries == 3
DefaultCfg == [timeout |-> DefaultTimeout, retries |-> DefaultRetries, proxy |-> None]

NoPage == [status |-> 0, url |-> "", doc |-> 0]
NoErr == [kind |-> "none", src |-> 0, code |-> ""]
CancelledError == [kind |-> "CancelledError", src |-> 0, code |-> ""]
ValueError == [kind |-> "ValueError", src |-> 0, code |-> ""]
FetchError(i, c) == [kind |-> "FetchError", src |-> i, code |-> c]
\* the session's __aenter__ raised
ResourceAcquisitionError == [kind |-> "ResourceAcquisitionError", src |-> 0, code |-> ""]

VARIABLES
    urls,        \* argument: the list of URLs
    level,       \* argument: protection_level
    cfg,         \* arguments: timeout, retries, proxy
    pc,          \* position of the fetch_content coroutine
    session,     \* "none" | "partial" | "open" | "closed": the session of the with-block
    sessionArgs, \* keyword arguments the session class was instantiated with
    requestArgs, \* keyword arguments given to each session.get / session.fetch
    backend,     \* which session class was instantiated
    openCount,   \* number of sessions entered by this call
    closeCount,  \* number of sessions exited by this call
    fetch,       \* per URL position: the task gather() made of session.get/fetch
    order,       \* positions in the order in which their tasks settled
    outer,       \* gather's outer future: "none"|"pending"|"result"|"exception"|"cancelled"
    outerErr,    \* the exception set on gather's outer future
    responses,   \* the value of `responses`
    mustCancel,  \* a cancellation of the calling task has been requested
    extractCalls,\* positions Convertor._extract_content was called for, in order
    output,      \* the list the call returned
    error,       \* the exception that left the call
    \* several calls of fetch_content on one event loop (SpecCalls)
    cpc,         \* per call: "idle" | "entering" | "gather" | "done" | "failed"
    csid,        \* per call: the session object its `session` is bound to, 0 for none
    ctasks,      \* per call: the tasks gather() made, each on a session object
    pool         \* every session object instantiated so far: its owner and state

callVars == <<cpc, csid, ctasks, pool>>

callState == <<urls, level, cfg, pc, session, sessionArgs, requestArgs, backend,
          openCount, closeCount, fetch, order, outer, outerErr, responses,
          mustCancel, extractCalls, output, error>>

vars == <<callState, callVars>>

Calls == 1..MaxCalls

N == Len(urls)
\* A fetch: its URL, the session it runs on, the number of attempts started,
\* its state and what it settled with.
Idle == [st |-> "idle", page |-> NoPage, err |-> NoErr, url |-> "", sid |-> 0,
         att |-> 0]

\* ------------------------------------------------------- pure functions

\* the early return for an empty list left out
ShortCircuit_Never(us) == FALSE

\* line 173: `if not urls: return []`
ShortCircuit(us) == Len(us) = 0

\* the membership test left out: every level falls through to the else branch
ValidLevel_Any(l) == TRUE

\* line 176: `protection_level not in ("basic", "playwright", "stealth")`
ValidLevel(l) == l \in {"basic", "playwright", "stealth"}

\* lines 181, 205, 230: the if / elif / else chain choosing the session class
Backend(l) ==
    IF l = "basic" THEN "FetcherSession"
    ELSE IF l = "playwright" THEN "AsyncDynamicSession"
    ELSE "AsyncStealthySession"

\* the conversion to milliseconds left out
BrowserTimeout_Seconds(t) == t

\* lines 206, 231: seconds to milliseconds
BrowserTimeout(t) == t * 1000

\* "proxy" set unconditionally, and a mapping added as "proxies" as well
RequestKwargs_BothProxies(c) ==
    LET base == ("timeout" :> Num(c.timeout)) @@ ("retries" :> Num(c.retries))
                @@ ("proxy" :> c.proxy)
    IN IF c.proxy.t = "dict" THEN base @@ ("proxies" :> c.proxy) ELSE base

\* "retries" left out of request_kwargs
RequestKwargs_NoRetries(c) ==
    LET base == "timeout" :> Num(c.timeout)
    IN IF c.proxy.t = "dict"
       THEN base @@ ("proxies" :> c.proxy)
       ELSE base @@ ("proxy" :> c.proxy)

\* lines 182-200: request_kwargs of the basic level
RequestKwargs(c) ==
    LET base == ("timeout" :> Num(c.timeout)) @@ ("retries" :> Num(c.retries))
    IN IF c.proxy.t = "dict"
       THEN base @@ ("proxies" :> c.proxy)
       ELSE base @@ ("proxy" :> c.proxy)

\* max_pages left at one page
SessionKwargs_OnePage(l, c, us) ==
    IF l = "basic" THEN NoKwargs
    ELSE ("timeout" :> Num(c.timeout * 1000))
         @@ ("proxy" :> c.proxy)
         @@ ("max_pages" :> Num(1))

\* lines 202, 207-227, 232-255: the keyword arguments of the session class
SessionKwargs(l, c, us) ==
    IF l = "basic" THEN NoKwargs
    ELSE ("timeout" :> Num(BrowserTimeout(c.timeout)))
         @@ ("proxy" :> c.proxy)
         @@ ("max_pages" :> Num(Len(us)))

\* the request keyword arguments given to the browser sessions' fetch too
FetchKwargs_Always(l, c) ==
    ("timeout" :> Num(c.timeout)) @@ ("retries" :> Num(c.retries))

\* lines 203, 228, 256: session.get(url, **request_kwargs) / session.fetch(url)
FetchKwargs(l, c) == IF l = "basic" THEN RequestKwargs(c) ELSE NoKwargs

\* The number of attempts a session makes for one fetch: the retries it was
\* given with the request, one when it was given none.
AttemptLimit(kw) == IF "retries" \in DOMAIN kw THEN kw["retries"].v ELSE 1

\* each fetch awaited before the next one is issued
IssueTasks_Sequential(us, sid) ==
    [i \in 1..Len(us) |->
        IF i = 1
        THEN [Idle EXCEPT !.st = "inflight", !.url = us[i], !.sid = sid, !.att = 1]
        ELSE Idle]

\* lines 203, 228, 256 and gather(): one awaitable per URL, in order, on the
\* session of the with-block; gather() makes a task of every one of them.
IssueTasks(us, sid) ==
    [i \in 1..Len(us) |->
        [Idle EXCEPT !.st = "inflight", !.url = us[i], !.sid = sid, !.att = 1]]

\* The raw pages a backend may answer a fetch of u with: any status, any
\* document, and as url either u or the final URL after redirects.
Pages(u) == [status : Statuses, url : {u, RedirectURL}, doc : Docs]

\* Convertor._extract_content: a generator of fragments for one page.  A
\* generator is the fragments it will yield and the number already yielded.
ExtractContent(page) ==
    [items |-> [k \in 1..page.doc |-> <<page.doc, k>>], pos |-> 0]

\* only the first fragment taken from the generator
Drain_FirstOnly(gen) ==
    IF gen.pos >= Len(gen.items) THEN <<>> ELSE <<gen.items[gen.pos + 1]>>

\* `[result for result in content]`: drain what the generator has left.
RECURSIVE Drain(_)
Drain(gen) ==
    IF gen.pos >= Len(gen.items) THEN <<>>
    ELSE <<gen.items[gen.pos + 1]>> \o Drain([gen EXCEPT !.pos = @ + 1])

\* lines 40-42
ContentTranslator(content, page) ==
    [status |-> page.status, content |-> Drain(content), url |-> page.url]

\* results appended as the children complete
GatherResults_ByCompletion(f, ord) == [k \in 1..Len(f) |-> f[ord[k]].page]

\* gather(): the outer future's result lists the children's results in the
\* order of the arguments, whatever the order of completion.
GatherResults(f, ord) == [i \in 1..Len(f) |-> f[i].page]

\* the latest child exception overwrites the earlier one
GatherException_Latest(cur, new) == new

\* gather() without return_exceptions: the first child exception is set on
\* the outer future; later ones are retrieved and dropped.
GatherException(cur, new) == IF cur = NoErr THEN new ELSE cur

\* lines 259-270: _extract_content is called once per page of responses
ExtractionOrder(resp) == [i \in 1..Len(resp) |-> i]

\* lines 259-270
BuildOutput(resp) ==
    [i \in 1..Len(resp) |-> ContentTranslator(ExtractContent(resp[i]), resp[i])]

AllSettled(f) == \A i \in 1..Len(f) : f[i].st \in {"done", "failed", "cancelled"}

\* ------------------------------------------------------------------ Init
InitCall ==
    /\ pc = "start"
    /\ session = "none"
    /\ sessionArgs = NoKwargs
    /\ requestArgs = NoKwargs
    /\ extractCalls = <<>>
    /\ backend = "none"
    /\ openCount = 0
    /\ closeCount = 0
    /\ fetch = [i \in 1..Len(urls) |-> Idle]
    /\ order = <<>>
    /\ outer = "none"
    /\ outerErr = NoErr
    /\ responses = <<>>
    /\ mustCancel = FALSE
    /\ output = <<>>
    /\ error = NoErr
    /\ cpc = [c \in Calls |-> "idle"]
    /\ csid = [c \in Calls |-> 0]
    /\ ctasks = [c \in Calls |-> <<>>]
    /\ pool = <<>>

\* Any list of URLs, any level and any retries up to the default, timeout
\* and proxy at their defaults.
Init ==
    /\ urls \in UrlLists
    /\ level \in Levels
    /\ \E r \in 1..DefaultRetries :
         /\ Len(urls) * r <= MaxAttempts
         /\ cfg = [DefaultCfg EXCEPT !.retries = r]
    /\ InitCall

\* Short lists of URLs, any level, any timeout and any kind of proxy.
InitCfg ==
    /\ urls \in UNION {[1..n -> URLS] : n \in 0..MaxCfgUrls}
    /\ level \in Levels
    /\ cfg \in [timeout : 0..MaxTimeout, retries : {DefaultRetries},
                proxy : {None, ProxyStr, ProxyDict}]
    /\ InitCall

\* --------------------------------------------------------------- actions

\* lines 173-174
ReturnEmpty ==
    /\ pc = "start"
    /\ ShortCircuit(urls)
    /\ pc' = "done"
    /\ output' = <<>>
    /\ UNCHANGED <<callVars, urls, level, cfg, sessionArgs, requestArgs, extractCalls, session, backend, openCount, closeCount, fetch,
                   order, outer, outerErr, responses, mustCancel, error>>

\* lines 176-179
RejectLevel ==
    /\ pc = "start"
    /\ ~ShortCircuit(urls)
    /\ ~ValidLevel(level)
    /\ pc' = "failed"
    /\ error' = ValueError
    /\ UNCHANGED <<callVars, urls, level, cfg, sessionArgs, requestArgs, extractCalls, session, backend, openCount, closeCount, fetch,
                   order, outer, outerErr, responses, mustCancel, output>>

\* lines 181-202, 205-227, 230-255: build the configuration, instantiate the
\* session class and suspend in its __aenter__.
EnterSession ==
    /\ pc = "start"
    /\ ~ShortCircuit(urls)
    /\ ValidLevel(level)
    /\ backend' = Backend(level)
    /\ sessionArgs' = SessionKwargs(level, cfg, urls)
    /\ requestArgs' = FetchKwargs(level, cfg)
    /\ pc' = "entering"
    /\ UNCHANGED <<callVars, urls, level, cfg, extractCalls, session, openCount, closeCount, fetch, order,
                   outer, outerErr, responses, mustCancel, output, error>>

\* lines 202, 207-227, 232-255: __aenter__ raises.  `async with` does not
\* call __aexit__ then, and nothing in fetch_content catches: what __aenter__
\* had acquired before it raised (nothing, or a part of the session) stays.
SessionOpenFails ==
    /\ pc = "entering"
    /\ \E part \in {"none", "partial"} : session' = part
    /\ error' = ResourceAcquisitionError
    /\ pc' = "failed"
    /\ UNCHANGED <<callVars, urls, level, cfg, sessionArgs, requestArgs, extractCalls,
                   backend, openCount, closeCount, fetch, order, outer,
                   outerErr, responses, mustCancel, output>>

\* lines 203-204, 228-229, 256-257: __aenter__ returned the session; one
\* awaitable per URL is built and gather() makes a task of each, then the
\* call suspends on the outer future (done at once when there is no child).
StartGather ==
    /\ pc = "entering"
    /\ session' = "open"
    /\ openCount' = openCount + 1
    /\ fetch' = IssueTasks(urls, openCount + 1)
    /\ outer' = IF N = 0 THEN "result" ELSE "pending"
    /\ pc' = "gather"
    /\ UNCHANGED <<callVars, urls, level, cfg, sessionArgs, requestArgs, extractCalls, backend, closeCount, order, outerErr,
                   responses, mustCancel, output, error>>

\* A child task returns a page; gather's done-callback sets the outer result
\* when this was the last child and the outer future is still pending.
FetchSucceed(i) ==
    /\ fetch[i].st = "inflight"
    /\ \E p \in Pages(urls[i]) :
         LET f == [fetch EXCEPT ![i] = [@ EXCEPT !.st = "done", !.page = p]]
             o == Append(order, i)
             last == outer = "pending" /\ AllSettled(f)
         IN /\ fetch' = f
            /\ order' = o
            /\ outer' = IF last THEN "result" ELSE outer
            /\ responses' = IF last THEN GatherResults(f, o) ELSE responses
    /\ UNCHANGED <<callVars, urls, level, cfg, sessionArgs, requestArgs, extractCalls, pc, session, backend, openCount, closeCount,
                   outerErr, mustCancel, output, error>>

\* An attempt of a fetch fails and the session has attempts left for it: it
\* starts the next attempt, the task stays in flight.
FetchRetry(i) ==
    /\ fetch[i].st = "inflight"
    /\ fetch[i].att < AttemptLimit(requestArgs)
    /\ fetch' = [fetch EXCEPT ![i] = [@ EXCEPT !.att = @ + 1]]
    /\ UNCHANGED <<callVars, urls, level, cfg, sessionArgs, requestArgs, extractCalls,
                   pc, session, backend, openCount, closeCount, order, outer,
                   outerErr, responses, mustCancel, output, error>>

\* The last attempt of a fetch fails: the child task raises; gather's
\* done-callback sets the exception on the outer future if it is still
\* pending.  The siblings are left running.
FetchFail(i) ==
    /\ fetch[i].st = "inflight"
    /\ fetch[i].att >= AttemptLimit(requestArgs)
    /\ \E c \in ErrCodes :
         LET e == FetchError(i, c)
         IN /\ fetch' = [fetch EXCEPT ![i] = [@ EXCEPT !.st = "failed", !.err = e]]
            /\ outerErr' = IF outer \in {"pending", "exception"}
                           THEN GatherException(outerErr, e) ELSE outerErr
    /\ order' = Append(order, i)
    /\ outer' = IF outer = "pending" THEN "exception" ELSE outer
    /\ UNCHANGED <<callVars, urls, level, cfg, sessionArgs, requestArgs, extractCalls, pc, session, backend, openCount, closeCount,
                   responses, mustCancel, output, error>>

\* The task running fetch_content is cancelled while it waits on gather's
\* outer future.  A pending outer future passes the cancellation on to every
\* child that is not done; a done one does not, and the task only remembers
\* that CancelledError must be thrown into it when it resumes.
Cancel ==
    /\ pc = "gather"
    /\ ~mustCancel
    /\ mustCancel' = TRUE
    /\ IF outer = "pending"
       THEN /\ fetch' = [i \in 1..N |->
                           IF fetch[i].st = "inflight"
                           THEN [fetch[i] EXCEPT !.st = "cancelled"]
                           ELSE fetch[i]]
            /\ outer' = "cancelled"
       ELSE UNCHANGED <<fetch, outer>>
    /\ UNCHANGED <<callVars, urls, level, cfg, sessionArgs, requestArgs, extractCalls, pc, session, backend, openCount, closeCount,
                   order, outerErr, responses, output, error>>

\* a fetch error swallowed at the await instead of being thrown
Pending_Swallow == IF mustCancel THEN CancelledError ELSE NoErr

\* The exception that is thrown into the coroutine at `await gather(...)`.
Pending ==
    IF mustCancel THEN CancelledError
    ELSE IF outer = "exception" THEN outerErr
    ELSE NoErr

\* the session never closed
ReleaseOnExit_Leak(e) == "open"

\* the session closed by a plain statement after the await, not by the with
ReleaseOnExit_NormalOnly(e) == IF e = NoErr THEN "closed" ELSE "open"

\* `async with`: the block is left, normally or by an exception e (NoErr
\* when there is none), and __aexit__ releases the session.
ReleaseOnExit(e) == "closed"

WithExit ==
    /\ pc = "gather"
    /\ outer # "pending"
    /\ session' = ReleaseOnExit(Pending)
    /\ closeCount' = IF session' = "closed" THEN closeCount + 1 ELSE closeCount
    /\ error' = Pending
    /\ pc' = "released"
    /\ UNCHANGED <<callVars, urls, level, cfg, sessionArgs, requestArgs, extractCalls, backend, openCount, fetch, order, outer,
                   outerErr, responses, mustCancel, output>>

\* lines 259-270
Return ==
    /\ pc = "released"
    /\ error = NoErr
    /\ extractCalls' = ExtractionOrder(responses)
    /\ output' = BuildOutput(responses)
    /\ pc' = "done"
    /\ UNCHANGED <<callVars, urls, level, cfg, sessionArgs, requestArgs, session, backend, openCount, closeCount, fetch,
                   order, outer, outerErr, responses, mustCancel, error>>

\* the exception leaves fetch_content: nothing in it catches
Raise ==
    /\ pc = "released"
    /\ error # NoErr
    /\ pc' = "failed"
    /\ UNCHANGED <<callVars, urls, level, cfg, sessionArgs, requestArgs, extractCalls, session, backend, openCount, closeCount, fetch,
                   order, outer, outerErr, responses, mustCancel, output, error>>

Next ==
    \/ ReturnEmpty
    \/ RejectLevel
    \/ EnterSession
    \/ SessionOpenFails
    \/ StartGather
    \/ \E i \in 1..N : FetchSucceed(i)
    \/ \E i \in 1..N : FetchRetry(i)
    \/ \E i \in 1..N : FetchFail(i)
    \/ Cancel
    \/ WithExit
    \/ Return
    \/ Raise

Spec == Init /\ [][Next]_vars

SpecCfg == InitCfg /\ [][Next]_vars

\* ------------------------------------------------- several calls at once
\* Calls of fetch_content on one event loop, each cut at the same suspension
\* points; fetch_content is a staticmethod and keeps nothing between calls.

\* one session object kept and handed to every call that finds it open
SessionObject_Cached(c, p) ==
    IF \E k \in 1..Len(p) : p[k].st = "open"
    THEN CHOOSE k \in 1..Len(p) : p[k].st = "open"
    ELSE Len(p) + 1

\* lines 202, 207, 232: `FetcherSession()`, `AsyncDynamicSession(...)`,
\* `AsyncStealthySession(...)`: the call instantiates a session object of
\* its own.
SessionObject(c, p) == Len(p) + 1

\* a call is made with n URLs: up to the `async with`, suspended in __aenter__
CallEnter(c) ==
    /\ cpc[c] = "idle"
    /\ \E n \in CallSizes :
         ctasks' = [ctasks EXCEPT ![c] = [i \in 1..n |-> [Idle EXCEPT !.url = "a"]]]
    /\ LET k == SessionObject(c, pool)
       IN /\ csid' = [csid EXCEPT ![c] = k]
          /\ pool' = IF k > Len(pool)
                     THEN Append(pool, [owner |-> c, st |-> "new"])
                     ELSE pool
    /\ cpc' = [cpc EXCEPT ![c] = "entering"]
    /\ UNCHANGED callState

\* __aenter__ returned: the tasks are issued on the call's `session`
CallGather(c) ==
    /\ cpc[c] = "entering"
    /\ pool' = [pool EXCEPT ![csid[c]].st = "open"]
    /\ ctasks' = [ctasks EXCEPT ![c] =
                    IssueTasks([i \in 1..Len(ctasks[c]) |-> ctasks[c][i].url], csid[c])]
    /\ cpc' = [cpc EXCEPT ![c] = "gather"]
    /\ UNCHANGED <<callState, csid>>

\* a task of a call settles, with a page or with an error
CallFetchSettle(c, i) ==
    /\ ctasks[c][i].st = "inflight"
    /\ \E r \in {"done", "failed"} :
         ctasks' = [ctasks EXCEPT ![c][i].st = r]
    /\ UNCHANGED <<callState, cpc, csid, pool>>

\* gather's outer future is done (every task done, or one failed): the
\* with-block is left, __aexit__ runs on the call's `session`, and the call
\* returns or raises.
CallExit(c) ==
    /\ cpc[c] = "gather"
    /\ LET failed == \E i \in 1..Len(ctasks[c]) : ctasks[c][i].st = "failed"
           alldone == \A i \in 1..Len(ctasks[c]) : ctasks[c][i].st = "done"
       IN /\ failed \/ alldone
          /\ pool' = [pool EXCEPT ![csid[c]].st =
                        ReleaseOnExit(IF failed THEN FetchError(0, "") ELSE NoErr)]
          /\ cpc' = [cpc EXCEPT ![c] = IF failed THEN "failed" ELSE "done"]
    /\ UNCHANGED <<callState, csid, ctasks>>

NextCalls ==
    \/ \E c \in Calls : CallEnter(c)
    \/ \E c \in Calls : CallGather(c)
    \/ \E c \in Calls : \E i \in 1..Len(ctasks[c]) : CallFetchSettle(c, i)
    \/ \E c \in Calls : CallExit(c)

InitCalls ==
    /\ urls = <<>>
    /\ level = "basic"
    /\ cfg = DefaultCfg
    /\ InitCall

SpecCalls == InitCalls /\ [][NextCalls]_vars

\* ---------------------------------------------------------------- claims
Terminal == pc \in {"done", "failed"}
InFlight == {i \in 1..N : fetch[i].st = "inflight"}
Failed == {i \in 1..N : fetch[i].st = "failed"}
\* the position whose fetch was the first, in time, to fail
FirstFailed ==
    order[CHOOSE k \in 1..Len(order) :
            /\ fetch[order[k]].st = "failed"
            /\ \A j \in 1..(k - 1) : fetch[order[j]].st # "failed"]

\* C1: a call with a valid protection level that returns normally returns
\* exactly len(urls) records, and the record at position i is the one built
\* from the page that the fetch issued for urls[i] returned, whatever the
\* order in which the fetches completed.
C1_OutputPositional ==
    (pc = "done" /\ level \in ProtectionLevel) =>
        /\ Len(output) = N
        /\ \A i \in 1..N :
             /\ fetch[i].st = "done"
             /\ output[i] = ContentTranslator(ExtractContent(fetch[i].page),
                                              fetch[i].page)

\* the second fetch completed first, with a page unlike the first one's
C1_Witness ==
    /\ pc = "done"
    /\ N = 2
    /\ order = <<2, 1>>
    /\ fetch[1].page.status # fetch[2].page.status
    /\ output[1].status = fetch[1].page.status

\* C2: in every normal return for a non-empty urls, the url field of the
\* record at position i is urls[i], the URL given by the user.
C2_UrlIsUserUrl ==
    (pc = "done" /\ N > 0) =>
        /\ Len(output) = N
        /\ \A i \in 1..N : output[i].url = urls[i]

\* C3: a call opens a session at most once, and when the call has returned
\* or failed every session it opened has been released.
C3_SessionScoped ==
    /\ openCount <= 1
    /\ closeCount <= openCount
    /\ Terminal => (session # "open" /\ closeCount = openCount)

\* a fetch failed, the call failed with its error, the session was released
C3_Witness ==
    /\ pc = "failed"
    /\ error.kind = "FetchError"
    /\ openCount = 1
    /\ closeCount = 1
    /\ session = "closed"

\* C4: once a fetch of the batch has failed the call never returns records:
\* it does not return, and when it has ended it has failed with an error and
\* an empty output.
C4_AllOrNothing ==
    (Failed # {}) =>
        /\ pc # "done"
        /\ output = <<>>
        /\ Terminal => (pc = "failed" /\ error # NoErr)

\* one fetch failed and a sibling succeeded, and the caller got no record
C4_Witness ==
    /\ pc = "failed"
    /\ Failed # {}
    /\ \E i \in 1..N : fetch[i].st = "done"
    /\ output = <<>>

\* C5 as stated: with a protection level outside the three values the call
\* ends rejected with the configuration error, for every urls, empty included.
C5_RejectedForEveryUrls ==
    (level \notin ProtectionLevel /\ Terminal) =>
        (pc = "failed" /\ error = ValueError)

\* C5 amended: with a protection level outside the three values and a
\* non-empty urls the call ends rejected with the configuration error, and
\* with an empty urls it returns the empty list.
C5_RejectedWhenNonEmpty ==
    (level \notin ProtectionLevel /\ Terminal) =>
        IF N > 0 THEN pc = "failed" /\ error = ValueError /\ output = <<>>
        ELSE pc = "done" /\ output = <<>> /\ error = NoErr

\* an invalid level with two URLs was rejected
C5_Witness ==
    /\ level \notin ProtectionLevel
    /\ N = 2
    /\ pc = "failed"
    /\ error = ValueError

\* C6: in a call with an invalid protection level no session is ever opened
\* and no fetch is ever started.
C6_InvalidLevelNoBackend ==
    level \notin ProtectionLevel =>
        /\ openCount = 0
        /\ session = "none"
        /\ backend = "none"
        /\ outer = "none"
        /\ \A i \in 1..N : fetch[i].st = "idle"

\* the rejection of a non-empty batch has happened
C6_Witness ==
    /\ level \notin ProtectionLevel
    /\ N > 0
    /\ pc = "failed"
    /\ openCount = 0

\* C7: with an empty urls and any of the three protection levels no session
\* is ever opened, and the call ends returning the empty list.
C7_EmptyShortCircuit ==
    (N = 0 /\ level \in ProtectionLevel) =>
        /\ openCount = 0
        /\ session = "none"
        /\ pc \in {"start", "done"}
        /\ output = <<>>
        /\ error = NoErr

\* the empty call has returned under the stealth level
C7_Witness ==
    /\ N = 0
    /\ level = "stealth"
    /\ pc = "done"
    /\ output = <<>>
    /\ openCount = 0

\* C8: when the session has been released, and when the call has returned
\* or failed, no fetch of the call is in flight.
C8_NoFetchOutlivesSession ==
    (session = "closed" \/ Terminal) => InFlight = {}

\* C9: once a cancellation of the call has been processed (the call has
\* ended with CancelledError) no fetch of the call is running and no session
\* of the call is open.
C9_CancelStopsEverything ==
    (mustCancel /\ pc = "failed") =>
        /\ InFlight = {}
        /\ session # "open"

\* C10: when a call with a valid level has failed, its session had started
\* and it was not cancelled, a fetch has failed and the error of the call is,
\* unchanged, the error of the fetch that failed first in time; a call
\* failing with a fetch error always carries that one.
C10_FirstErrorInTime ==
    (/\ pc = "failed"
     /\ level \in ProtectionLevel
     /\ error # ResourceAcquisitionError
     /\ (~mustCancel \/ error.kind = "FetchError")) =>
        /\ Failed # {}
        /\ error = fetch[FirstFailed].err

\* both fetches failed, the one of the higher index first, and its error is
\* the one the caller got
C10_Witness ==
    /\ pc = "failed"
    /\ N = 2
    /\ order = <<2, 1>>
    /\ Failed = {1, 2}
    /\ error = fetch[2].err
    /\ error # fetch[1].err

\* ----------------------------------------------------- claims C11 - C20
BrowserLevel == level \in {"playwright", "stealth"}
Populated(kw, k) == k \in DOMAIN kw /\ kw[k] # None

\* C11: when the session failed to start, the call has failed, no fetch was
\* ever attempted, and no part of the session is left unreleased.
C11_OpenFailureReleased ==
    (pc = "failed" /\ error = ResourceAcquisitionError) =>
        /\ \A i \in 1..N : fetch[i].st = "idle"
        /\ session \notin {"open", "partial"}

\* C12: once the session class has been instantiated, for playwright and
\* stealth the session's timeout is the caller's timeout times 1000, and for
\* basic the timeout of each request is the caller's timeout.
C12_TimeoutUnits ==
    (backend # "none") =>
        IF level = "basic"
        THEN /\ requestArgs["timeout"] = Num(cfg.timeout)
             /\ "timeout" \notin DOMAIN sessionArgs
        ELSE /\ sessionArgs["timeout"] = Num(cfg.timeout * 1000)
             /\ "timeout" \notin DOMAIN requestArgs

\* a timeout of 5 seconds reached an open playwright session as 5000
C12_Witness ==
    /\ level = "playwright"
    /\ cfg.timeout = 5
    /\ session = "open"
    /\ sessionArgs["timeout"].v = 5000

\* C13: on the basic level a proxy string is given as "proxy" and a proxy
\* mapping as "proxies", and the two are never both populated.
C13_ProxyRouting ==
    (level = "basic" /\ backend # "none") =>
        /\ cfg.proxy.t = "str" =>
             (requestArgs["proxy"] = cfg.proxy /\ "proxies" \notin DOMAIN requestArgs)
        /\ cfg.proxy.t = "dict" =>
             (requestArgs["proxies"] = cfg.proxy /\ "proxy" \notin DOMAIN requestArgs)
        /\ cfg.proxy = None =>
             (~Populated(requestArgs, "proxy") /\ ~Populated(requestArgs, "proxies"))
        /\ ~(Populated(requestArgs, "proxy") /\ Populated(requestArgs, "proxies"))

\* a mapping was routed to "proxies" of a request in flight
C13_Witness ==
    /\ level = "basic"
    /\ cfg.proxy = ProxyDict
    /\ N = 1
    /\ fetch[1].st = "inflight"
    /\ Populated(requestArgs, "proxies")

\* C14: on the basic level a fetch makes at most `retries` attempts, its
\* error surfaces only with the last of them, and a fetch that succeeds
\* on a later attempt gives a record; with retries = 1 the first failed
\* attempt fails the batch.
C14_RetriesExhausted ==
    (level = "basic") =>
        /\ \A i \in 1..N :
             /\ fetch[i].att <= cfg.retries
             /\ fetch[i].st = "failed" => fetch[i].att = cfg.retries
             /\ (fetch[i].st = "done" /\ pc = "done") =>
                    (Len(output) = N /\ output[i].status = fetch[i].page.status)
        /\ (Failed # {} /\ Terminal) => pc = "failed"

\* with retries = 3 a fetch succeeded on its third attempt and gave a record
C14_Witness ==
    /\ level = "basic"
    /\ cfg.retries = 3
    /\ N = 1
    /\ pc = "done"
    /\ fetch[1].att = 3
    /\ Len(output) = 1

\* C15: on playwright and stealth every fetch is attempted once only, and a
\* failed fetch has failed the batch when the call ends.
C15_SingleAttempt ==
    BrowserLevel =>
        /\ openCount <= 1
        /\ \A i \in 1..N :
             /\ fetch[i].att <= 1
             /\ fetch[i].st # "idle" => fetch[i].att = 1
        /\ (Failed # {} /\ Terminal) => pc = "failed"

\* a stealth fetch failed on its only attempt though retries = 3 was asked
C15_Witness ==
    /\ level = "stealth"
    /\ cfg.retries = 3
    /\ N = 1
    /\ pc = "failed"
    /\ fetch[1].st = "failed"
    /\ fetch[1].att = 1

\* C17: before the session is entered no fetch is issued; from the moment
\* the call waits on gather, len(urls) fetches have been issued, the i-th
\* for urls[i], all on the one session of the call, so none is still to be
\* started when any of them settles.
C17_FanOut ==
    /\ Len(fetch) = N
    /\ pc \in {"start", "entering"} => \A i \in 1..N : fetch[i].st = "idle"
    /\ openCount = 1 =>
         \A i \in 1..N :
            /\ fetch[i].st # "idle"
            /\ fetch[i].url = urls[i]
            /\ fetch[i].sid = 1

\* the same URL twice: two fetches in flight at once, none settled yet
C17_Witness ==
    /\ N = 2
    /\ urls[1] = urls[2]
    /\ pc = "gather"
    /\ order = <<>>
    /\ InFlight = {1, 2}

\* C18: a playwright or stealth session is instantiated with max_pages =
\* len(urls), and the fetches in flight never exceed it.
C18_Capacity ==
    (BrowserLevel /\ backend # "none") =>
        /\ sessionArgs["max_pages"] = Num(N)
        /\ Cardinality(InFlight) <= sessionArgs["max_pages"].v

\* two fetches in flight on a session of two pages
C18_Witness ==
    /\ level = "playwright"
    /\ N = 2
    /\ InFlight = {1, 2}
    /\ sessionArgs["max_pages"].v = 2

C20_ExtractAfterFetch ==
    /\ extractCalls # <<>> =>
         /\ session = "closed"
         /\ \A i \in 1..N : fetch[i].st = "done"
    /\ (session = "open" \/ Failed # {}) =>
         (extractCalls = <<>> /\ output = <<>>)

\* two pages extracted after the session was closed
C20_Witness ==
    /\ extractCalls = <<1, 2>>
    /\ session = "closed"
    /\ closeCount = 1

\* C16: calls never share a session: two calls are never bound to the same
\* session object, every session object belongs to the one call that
\* instantiated it and every call instantiates at most one, every task of a
\* call runs on the session of that call, and when a call has ended its
\* session is not open.
C16_SessionPerCall ==
    /\ \A c, d \in Calls : (c # d /\ csid[c] # 0) => csid[c] # csid[d]
    /\ \A c \in Calls :
         /\ Cardinality({k \in 1..Len(pool) : pool[k].owner = c}) <= 1
         /\ csid[c] # 0 => pool[csid[c]].owner = c
         /\ \A i \in 1..Len(ctasks[c]) :
              ctasks[c][i].st # "idle" => ctasks[c][i].sid = csid[c]
         /\ cpc[c] \in {"done", "failed"} => pool[csid[c]].st = "closed"

\* two calls in their gather at once, each with tasks on its own open session
C16_Witness ==
    /\ cpc[1] = "gather"
    /\ cpc[2] = "gather"
    /\ csid[1] # csid[2]
    /\ pool[csid[1]].st = "open"
    /\ pool[csid[2]].st = "open"
    /\ ctasks[1][1].st = "inflight"
    /\ ctasks[2][1].st = "inflight"

====
